---------------------------- MODULE Spec2Model ----------------------------
(***************************************************************************)
(* Model of the book index re-organizer (main.py, src/map_and_sort.py,     *)
(* src/extract_epub.py, src/structure_index.py).                           *)
(*                                                                         *)
(* Text that the code compares, strips or formats (terms, subentries, page *)
(* tokens, page display strings, collaborator responses) is a sequence of  *)
(* one-character strings; text that is only compared for equality (chapter *)
(* names, file names, subheadings) is a TLA+ string.                       *)
(***************************************************************************)
EXTENDS Naturals, Integers, Sequences, FiniteSets, TLC

VARIABLES
    path,              \* "pdf" or "epub": which run this is
    pc,                \* position of the run
    toc,               \* table of contents handed to the mapping step
    index_entries,     \* index entries handed to the mapping step
    spine_hrefs,       \* EPUB: hrefs of the spine, in reading order
    file_to_chapter,   \* EPUB: file basename -> chapter title
    subheading_by_file_and_page,  \* EPUB: file basename -> breakpoints
    rows,              \* the resolved rows the mapping step built
    grouped,           \* the GroupedIndex returned by the mapping step
    page_str,          \* a page token handed to _normalize_page
    page_int,          \* what _normalize_page returned for it
    text,              \* the collaborator's response text
    data,              \* what _extract_json_from_response returned for it
    raised,            \* the exception the structuring step raised, or "none"
    items,             \* the parsed JSON list a structuring function loops over
    last_page,         \* structure_toc_with_llm's last_page argument
    structured,        \* the list a structuring function returned
    paragraphs,        \* the index paragraphs of an EPUB index page
    parsed,            \* the entries _parse_index_html returned
    tags,              \* the headings and page markers of a chapter file
    breakpoints,       \* what _parse_chapter_subheadings returned
    query,             \* the page a subheading was looked up for
    answer,            \* what _subheading_for_ref returned
    rendered,          \* the lines export_markdown wrote
    runs,              \* what each run of the pipeline saw and produced
    index_response,    \* run_pdf: outcome of the index structuring call
    toc_response,      \* run_pdf: outcome of the TOC structuring call
    written            \* run_pdf: whether the Markdown document was written

mapVars == <<path, pc, toc, index_entries, spine_hrefs, file_to_chapter,
             subheading_by_file_and_page, rows, grouped>>

normVars == <<page_str, page_int>>

jsonVars == <<text, data, raised>>

structVars == <<items, last_page, structured>>

htmlVars == <<paragraphs, parsed>>

subVars == <<tags, breakpoints, query, answer>>

runVars == <<rendered, runs>>

callVars == <<index_response, toc_response, written>>

otherVars == <<structVars, htmlVars, subVars, runVars, callVars>>

vars == <<mapVars, normVars, jsonVars, otherVars>>

(***************************************************************************)
(* Bounds of the model.                                                    *)
(***************************************************************************)
MaxPage == 2
MaxToc == 2
MaxEntries == 3
MaxRows == 3
MaxSpine == 2
MaxEpubEntries == 2
MaxEpubRows == 2

\* The state of the parts of the program a run does not use.
MapIdle ==
    /\ toc = <<>> /\ index_entries = <<>> /\ spine_hrefs = <<>>
    /\ file_to_chapter = <<>> /\ subheading_by_file_and_page = <<>>
    /\ rows = <<>> /\ grouped = <<>>

NormIdle == page_str = <<>> /\ page_int = 0

JsonIdle == text = <<>> /\ data = <<>> /\ raised = "none"

StructIdle == items = <<>> /\ last_page = 0 /\ structured = <<>>

HtmlIdle == paragraphs = <<>> /\ parsed = <<>>

SubIdle == tags = <<>> /\ breakpoints = <<>> /\ query = <<>> /\ answer = ""

RunIdle == rendered = <<>> /\ runs = <<>>

CallIdle == index_response = <<>> /\ toc_response = <<>> /\ written = FALSE

OtherIdle == StructIdle /\ HtmlIdle /\ SubIdle /\ RunIdle /\ CallIdle

\* Sequences over S of length at most n.
SeqUpTo(S, n) == UNION {[1..k -> S] : k \in 0..n}

\* Lists of at most maxE index entries with headings from H and references
\* from R, holding at most maxRows references in all.
RECURSIVE IndexLists(_, _, _, _)
IndexLists(H, R, maxE, maxRows) ==
    IF maxE = 0 THEN {<<>>}
    ELSE {<<>>} \cup
         UNION {{<<[term |-> h[1], subentry |-> h[2], refs |-> rs]>> \o rest :
                    rest \in IndexLists(H, R, maxE - 1, maxRows - Len(rs))} :
                h \in H, rs \in SeqUpTo(R, maxRows)}

(***************************************************************************)
(* Text.                                                                   *)
(***************************************************************************)
\* The characters the model uses, in code point order.
Alphabet == <<" ", "-", "0", "1", "2", "3", "4", "5", "6", "7", "8", "9",
              "a", "b", "s">>

Ord(c) == CHOOSE i \in 1..Len(Alphabet) : Alphabet[i] = c

\* Python's str < str: lexicographic by code point, a proper prefix is smaller.
RECURSIVE StrLess(_, _)
StrLess(s, t) ==
    IF t = <<>> THEN FALSE
    ELSE IF s = <<>> THEN TRUE
    ELSE IF Head(s) # Head(t) THEN Ord(Head(s)) < Ord(Head(t))
    ELSE StrLess(Tail(s), Tail(t))

RECURSIVE LStrip(_)
LStrip(s) ==
    IF s # <<>> /\ Head(s) = " " THEN LStrip(Tail(s)) ELSE s

RECURSIVE RStrip(_)
RStrip(s) ==
    IF s # <<>> /\ s[Len(s)] = " " THEN RStrip(SubSeq(s, 1, Len(s) - 1)) ELSE s

\* str.strip()
Strip(s) == RStrip(LStrip(s))

Digits == <<"0", "1", "2", "3", "4", "5", "6", "7", "8", "9">>

\* str(n) for n >= 0
RECURSIVE Str(_)
Str(n) ==
    IF n < 10 THEN <<Digits[n + 1]>>
    ELSE Str(n \div 10) \o <<Digits[(n % 10) + 1]>>

\* _page_display: "120" or "120-125"
PageDisplay(start, end) ==
    IF start = end THEN Str(start) ELSE Str(start) \o <<"-">> \o Str(end)

(***************************************************************************)
(* Reference resolver, PDF path.                                           *)
(***************************************************************************)
SentinelOrder == 9999

\* A reference is (locator, page) or (locator, start, end).
RefStart(ref) == ref[2]

RefEnd(ref) == IF Len(ref) = 2 THEN ref[2] ELSE ref[3]

\* A faulty variant of ResolvePdf: the loop does not break, the last containing entry wins.
ResolvePdfLast(t, start) ==
    LET hits == {i \in 1..Len(t) : t[i].start_page <= start /\ start <= t[i].end_page}
    IN  IF hits = {} THEN [chapter |-> "Other", order |-> SentinelOrder]
        ELSE LET i == CHOOSE j \in hits : \A k \in hits : j >= k
             IN  [chapter |-> t[i].name, order |-> i - 1]

\* The for/break loop over the TOC: the first entry, in list order, whose
\* [start_page, end_page] contains the page; "Other" and the sentinel otherwise.
ResolvePdf(t, start) ==
    LET hits == {i \in 1..Len(t) : t[i].start_page <= start /\ start <= t[i].end_page}
    IN  IF hits = {} THEN [chapter |-> "Other", order |-> SentinelOrder]
        ELSE LET i == CHOOSE j \in hits : \A k \in hits : j <= k
             IN  [chapter |-> t[i].name, order |-> i - 1]

PdfRow(t, item, ref) ==
    LET res == ResolvePdf(t, RefStart(ref))
    IN  [term |-> Strip(item.term),
         subentry |-> Strip(item.subentry),
         chapter |-> res.chapter,
         start_page |-> RefStart(ref),
         order |-> res.order,
         subheading |-> "",
         page_display |-> PageDisplay(RefStart(ref), RefEnd(ref))]

\* The rows one index entry explodes into, one per reference, in order.
PdfRowsOfItem(t, item) ==
    [k \in 1..Len(item.refs) |-> PdfRow(t, item, item.refs[k])]

RECURSIVE PdfRows(_, _)
PdfRows(t, entries) ==
    IF entries = <<>> THEN <<>>
    ELSE PdfRowsOfItem(t, Head(entries)) \o PdfRows(t, Tail(entries))

(***************************************************************************)
(* Appearance reducer.                                                     *)
(***************************************************************************)
\* A faulty variant of RowKeyLess: the page is compared before the chapter order.
RowKeyLessPageFirst(r1, r2) ==
    \/ r1.start_page < r2.start_page
    \/ /\ r1.start_page = r2.start_page
       /\ \/ r1.order < r2.order
          \/ /\ r1.order = r2.order
             /\ \/ StrLess(r1.term, r2.term)
                \/ r1.term = r2.term /\ StrLess(r1.subentry, r2.subentry)

\* key=lambda r: (r[4], r[3], r[0], r[1])
RowKeyLess(r1, r2) ==
    \/ r1.order < r2.order
    \/ /\ r1.order = r2.order
       /\ \/ r1.start_page < r2.start_page
          \/ /\ r1.start_page = r2.start_page
             /\ \/ StrLess(r1.term, r2.term)
                \/ r1.term = r2.term /\ StrLess(r1.subentry, r2.subentry)

\* A faulty variant of SortRows: the rows are left in their input order.
SortRowsInputOrder(all_rows) == all_rows

\* sorted(rows, key=...): stable, equal keys keep their input order.
SortRows(all_rows) ==
    LET n == Len(all_rows)
        rank(i) == Cardinality({j \in 1..n :
                        \/ RowKeyLess(all_rows[j], all_rows[i])
                        \/ ~RowKeyLess(all_rows[i], all_rows[j]) /\ j < i}) + 1
    IN  [k \in 1..n |-> all_rows[CHOOSE i \in 1..n : rank(i) = k]]

\* A faulty variant of FirstOccurrences: `seen` is never consulted.
FirstOccurrencesAll(rows_sorted, seen) == rows_sorted

\* The loop over rows_sorted with the set `seen`: the first row of each
\* (term, subentry) is kept.
RECURSIVE FirstOccurrences(_, _)
FirstOccurrences(rows_sorted, seen) ==
    IF rows_sorted = <<>> THEN <<>>
    ELSE LET r == Head(rows_sorted)
             key == <<r.term, r.subentry>>
         IN  IF key \in seen THEN FirstOccurrences(Tail(rows_sorted), seen)
             ELSE <<r>> \o FirstOccurrences(Tail(rows_sorted), seen \cup {key})

\* A faulty variant of ChapterOrder: a new chapter name is put first, not last.
RECURSIVE ChapterOrderPrepend(_, _)
ChapterOrderPrepend(firsts, acc) ==
    IF firsts = <<>> THEN acc
    ELSE LET ch == Head(firsts).chapter
         IN  IF \E i \in 1..Len(acc) : acc[i] = ch
             THEN ChapterOrderPrepend(Tail(firsts), acc)
             ELSE ChapterOrderPrepend(Tail(firsts), <<ch>> \o acc)

\* chapter_order: each chapter name once, in order of first occurrence.
RECURSIVE ChapterOrder(_, _)
ChapterOrder(firsts, acc) ==
    IF firsts = <<>> THEN acc
    ELSE LET ch == Head(firsts).chapter
         IN  IF \E i \in 1..Len(acc) : acc[i] = ch
             THEN ChapterOrder(Tail(firsts), acc)
             ELSE ChapterOrder(Tail(firsts), Append(acc, ch))

\* chapter_entries[ch] before the per-chapter sort.
ChapterEntries(firsts, ch) ==
    LET mine == SelectSeq(firsts, LAMBDA r : r.chapter = ch)
    IN  [k \in 1..Len(mine) |->
            [term |-> mine[k].term,
             subentry |-> mine[k].subentry,
             page |-> mine[k].page_display,
             subheading |-> mine[k].subheading,
             sort_page |-> mine[k].start_page]]

\* key=lambda e: (e["_sort_page"], e["term"], e["subentry"])
EntryKeyLess(e1, e2) ==
    \/ e1.sort_page < e2.sort_page
    \/ /\ e1.sort_page = e2.sort_page
       /\ \/ StrLess(e1.term, e2.term)
          \/ e1.term = e2.term /\ StrLess(e1.subentry, e2.subentry)

\* A faulty variant of SortEntries: the per-chapter sort is left out.
SortEntriesSkipped(es) == es

\* chapter_entries[ch].sort(key=...): stable.
SortEntries(es) ==
    LET n == Len(es)
        rank(i) == Cardinality({j \in 1..n :
                        \/ EntryKeyLess(es[j], es[i])
                        \/ ~EntryKeyLess(es[i], es[j]) /\ j < i}) + 1
    IN  [k \in 1..n |-> es[CHOOSE i \in 1..n : rank(i) = k]]

\* del e["_sort_page"]
DropSortKey(es) ==
    [k \in 1..Len(es) |->
        [term |-> es[k].term, subentry |-> es[k].subentry,
         page |-> es[k].page, subheading |-> es[k].subheading]]

\* _first_appearance_by_chapter
FirstAppearanceByChapter(all_rows) ==
    IF all_rows = <<>> THEN <<>>
    ELSE LET firsts == FirstOccurrences(SortRows(all_rows), {})
             order == ChapterOrder(firsts, <<>>)
         IN  [g \in 1..Len(order) |->
                [chapter_name |-> order[g],
                 entries |-> DropSortKey(SortEntries(ChapterEntries(firsts, order[g])))]]

(***************************************************************************)
(* Inputs of the PDF path.                                                 *)
(***************************************************************************)
PdfNames == {"A", "Other"}

\* Raw (term, subentry) headings: two of the same term that differ by
\* subentry, one of another term; one carries a blank that strip() removes.
Headings == {<< <<"a", " ">>, <<>> >>, << <<"a">>, <<"s">> >>, << <<"b">>, <<>> >>}

TocPages == 1..MaxPage

\* Page 0 is what a malformed page token normalizes to.
RefPages == 0..MaxPage

PdfTocEntries ==
    {e \in [name : PdfNames, start_page : TocPages, end_page : TocPages] :
        e.start_page <= e.end_page}

PdfRefs == {<<"None", p>> : p \in RefPages}

PdfIndexLists == IndexLists(Headings, PdfRefs, MaxEntries, MaxRows)

\* The state of run_pdf after both structuring calls have returned.
InitPdf ==
    /\ path = "pdf"
    /\ pc = "start"
    /\ toc \in SeqUpTo(PdfTocEntries, MaxToc)
    /\ index_entries \in PdfIndexLists
    /\ spine_hrefs = <<>>
    /\ file_to_chapter = <<>>
    /\ subheading_by_file_and_page = <<>>
    /\ rows = <<>>
    /\ grouped = <<>>
    /\ NormIdle /\ JsonIdle /\ OtherIdle

\* run_pdf's mapping step: grouped = map_and_sort_pdf(toc, index_entries)
MapAndSortPdf ==
    /\ path = "pdf"
    /\ pc = "start"
    /\ rows' = PdfRows(toc, index_entries)
    /\ grouped' = FirstAppearanceByChapter(rows')
    /\ pc' = "mapped"
    /\ UNCHANGED <<path, toc, index_entries, spine_hrefs, file_to_chapter,
                   subheading_by_file_and_page, normVars, jsonVars,
                   otherVars>>

NextPdf == MapAndSortPdf

SpecPdf == InitPdf /\ [][NextPdf]_vars

(***************************************************************************)
(* Reference resolver, EPUB path.                                          *)
(***************************************************************************)
\* Path(href).name: an href is the sequence of its path components.
PathName(href) == IF href = <<>> THEN "" ELSE href[Len(href)]

\* A faulty variant of SpineOrder: a later href of the same basename overwrites the order.
SpineOrderLast(spine, file_basename) ==
    LET at == {i \in 1..Len(spine) : PathName(spine[i]) = file_basename}
    IN  IF at = {} THEN SentinelOrder
        ELSE (CHOOSE i \in at : \A k \in at : i >= k) - 1

\* basename_to_order.get(file_basename, 9999): the position in the spine of
\* the first href with that basename.
SpineOrder(spine, file_basename) ==
    LET at == {i \in 1..Len(spine) : PathName(spine[i]) = file_basename}
    IN  IF at = {} THEN SentinelOrder
        ELSE (CHOOSE i \in at : \A k \in at : i <= k) - 1

\* file_to_chapter.get(file_basename, "Other")
ChapterOfFile(f2c, file_basename) ==
    IF file_basename \in DOMAIN f2c THEN f2c[file_basename] ELSE "Other"

\* The loop of _subheading_for_ref: the subheading of the last breakpoint
\* before the first one whose page is above `page`.
RECURSIVE ScanBreakpoints(_, _, _)
ScanBreakpoints(lst, page, subheading) ==
    IF lst = <<>> THEN subheading
    ELSE IF Head(lst)[1] <= page THEN ScanBreakpoints(Tail(lst), page, Head(lst)[2])
    ELSE subheading

\* No breakpoint map: None and {} are both falsy to _subheading_for_ref.
NoSubheadings == <<>>

\* _subheading_for_ref
SubheadingForRef(file_basename, page, by_file) ==
    IF DOMAIN by_file = {} THEN ""
    ELSE LET lst == IF file_basename \in DOMAIN by_file
                    THEN by_file[file_basename] ELSE <<>>
         IN  ScanBreakpoints(lst, page, "")

EpubRow(spine, f2c, by_file, item, ref) ==
    [term |-> Strip(item.term),
     subentry |-> Strip(item.subentry),
     chapter |-> ChapterOfFile(f2c, ref[1]),
     start_page |-> RefStart(ref),
     order |-> SpineOrder(spine, ref[1]),
     subheading |-> SubheadingForRef(ref[1], RefStart(ref), by_file),
     page_display |-> PageDisplay(RefStart(ref), RefEnd(ref))]

\* The rows of one index entry; a reference without a file is skipped.
EpubRowsOfItem(spine, f2c, by_file, item) ==
    LET refs == SelectSeq(item.refs, LAMBDA ref : ref[1] # "")
    IN  [k \in 1..Len(refs) |-> EpubRow(spine, f2c, by_file, item, refs[k])]

RECURSIVE EpubRows(_, _, _, _)
EpubRows(spine, f2c, by_file, entries) ==
    IF entries = <<>> THEN <<>>
    ELSE EpubRowsOfItem(spine, f2c, by_file, Head(entries))
            \o EpubRows(spine, f2c, by_file, Tail(entries))

(***************************************************************************)
(* Inputs of the EPUB path: what extract_epub returns.                     *)
(***************************************************************************)
Files == {"c1.xhtml", "c2.xhtml"}

Titles == {"A", "B", "Other"}

Hrefs == {<<"Text", f>> : f \in Files}

EpubHeadings == {<< <<"a">>, <<>> >>, << <<"b">>, <<>> >>}

\* _parse_ncx keeps one TOC entry per file basename.
EpubTocs ==
    {t \in SeqUpTo([title : Titles, href : Hrefs], MaxToc) :
        \A i, j \in 1..Len(t) : i # j => PathName(t[i].href) # PathName(t[j].href)}

EpubToc(t) ==
    [i \in 1..Len(t) |->
        [title |-> t[i].title, href |-> t[i].href,
         file_basename |-> PathName(t[i].href)]]

\* file_to_chapter = {e["file_basename"]: e["title"] for e in toc}
FileToChapter(t) ==
    [f \in {t[i].file_basename : i \in 1..Len(t)} |->
        t[CHOOSE i \in 1..Len(t) : t[i].file_basename = f].title]

EpubRefs == {<<f, p>> : f \in Files, p \in 1..MaxPage}

EpubIndexLists == IndexLists(EpubHeadings, EpubRefs, MaxEpubEntries, MaxEpubRows)

\* Breakpoint lists as _parse_chapter_subheadings returns them: sorted by page.
BreakLists == {<<>>, << <<MaxPage, "H">> >>}

\* The state of run_epub after extract_epub has returned.
InitEpub ==
    /\ path = "epub"
    /\ pc = "start"
    /\ \E t \in EpubTocs :
        /\ toc = EpubToc(t)
        /\ file_to_chapter = FileToChapter(EpubToc(t))
        /\ subheading_by_file_and_page \in
              [{PathName(t[i].href) : i \in 1..Len(t)} -> BreakLists]
    /\ spine_hrefs \in SeqUpTo(Hrefs, MaxSpine)
    /\ index_entries \in EpubIndexLists
    /\ rows = <<>>
    /\ grouped = <<>>
    /\ NormIdle /\ JsonIdle /\ OtherIdle

\* run_epub's mapping step: map_and_sort_epub(toc, spine_hrefs, file_to_chapter,
\* index_entries), the breakpoint map left at its default.
MapAndSortEpub ==
    /\ path = "epub"
    /\ pc = "start"
    /\ rows' = EpubRows(spine_hrefs, file_to_chapter, NoSubheadings, index_entries)
    /\ grouped' = FirstAppearanceByChapter(rows')
    /\ pc' = "mapped"
    /\ UNCHANGED <<path, toc, index_entries, spine_hrefs, file_to_chapter,
                   subheading_by_file_and_page, normVars, jsonVars,
                   otherVars>>

NextEpub == MapAndSortEpub

SpecEpub == InitEpub /\ [][NextEpub]_vars

(***************************************************************************)
(* What the properties read off the resolved rows and the result.          *)
(***************************************************************************)
PairOfRow(r) == <<r.term, r.subentry>>

PairOfEntry(e) == <<e.term, e.subentry>>

Pairs == {PairOfRow(rows[i]) : i \in 1..Len(rows)}

\* (group, position) of every entry of the GroupedIndex.
Places ==
    UNION {{<<g, k>> : k \in 1..Len(grouped[g].entries)} : g \in 1..Len(grouped)}

EntryAt(pl) == grouped[pl[1]].entries[pl[2]]

PlacesOf(pair) == {pl \in Places : PairOfEntry(EntryAt(pl)) = pair}

GroupNames == {grouped[g].chapter_name : g \in 1..Len(grouped)}

\* (chapterOrder, page) of r1 is at most that of r2.
OrderPageLeq(r1, r2) ==
    \/ r1.order < r2.order
    \/ r1.order = r2.order /\ r1.start_page <= r2.start_page

\* The rows of `pair` with the smallest (chapterOrder, page) key.
MinRows(pair) ==
    {i \in 1..Len(rows) :
        /\ PairOfRow(rows[i]) = pair
        /\ \A j \in 1..Len(rows) :
              PairOfRow(rows[j]) = pair => OrderPageLeq(rows[i], rows[j])}

\* The row of `pair` that survives deduplication: among the rows with the
\* smallest key, the first of the input.
Survivor(pair) == CHOOSE i \in MinRows(pair) : \A j \in MinRows(pair) : i <= j

Survivors == {Survivor(pair) : pair \in Pairs}

DigitValue(c) == (CHOOSE i \in 1..Len(Digits) : Digits[i] = c) - 1

\* The number a page display string starts with.
RECURSIVE DisplayStartFrom(_, _)
DisplayStartFrom(d, acc) ==
    IF d = <<>> \/ Head(d) = "-" THEN acc
    ELSE DisplayStartFrom(Tail(d), 10 * acc + DigitValue(Head(d)))

DisplayStart(d) == DisplayStartFrom(d, 0)

(***************************************************************************)
(* C1: every (term, subentry) pair with at least one resolved reference    *)
(* appears exactly once in the whole GroupedIndex, and the entry kept is   *)
(* that of a reference with the smallest (chapterOrder, page) key: it is   *)
(* listed under that reference's chapter and shows that reference's page.  *)
(***************************************************************************)
C1_FirstAppearanceOnce ==
    pc = "mapped" =>
        \A pair \in Pairs :
            /\ Cardinality(PlacesOf(pair)) = 1
            /\ \A pl \in PlacesOf(pair) :
                  \E i \in MinRows(pair) :
                      /\ grouped[pl[1]].chapter_name = rows[i].chapter
                      /\ EntryAt(pl).page = rows[i].page_display

\* A pair is referenced in two chapters, with the numerically smaller page in
\* the later chapter, and is listed with the larger page of the earlier one.
C1_Witness ==
    /\ pc = "mapped"
    /\ \E i, j \in 1..Len(rows) :
          /\ PairOfRow(rows[i]) = PairOfRow(rows[j])
          /\ rows[i].order < rows[j].order
          /\ rows[j].start_page < rows[i].start_page
          /\ \E pl \in PlacesOf(PairOfRow(rows[i])) :
                EntryAt(pl).page = rows[i].page_display

(***************************************************************************)
(* C2: within every chapter group the entries are listed by page, entries  *)
(* of equal page by term, then by subentry.                                *)
(***************************************************************************)
C2_GroupSortedByPage ==
    pc = "mapped" =>
        \A g \in 1..Len(grouped) :
            \A k1, k2 \in 1..Len(grouped[g].entries) :
                k1 < k2 =>
                    LET e1 == grouped[g].entries[k1]
                        e2 == grouped[g].entries[k2]
                    IN  \/ DisplayStart(e1.page) < DisplayStart(e2.page)
                        \/ /\ DisplayStart(e1.page) = DisplayStart(e2.page)
                           /\ \/ StrLess(e1.term, e2.term)
                              \/ /\ e1.term = e2.term
                                 /\ StrLess(e1.subentry, e2.subentry)

\* A group lists an entry of a later TOC entry before one of an earlier TOC
\* entry of the same name, and two entries of one page and one term.
C2_Witness ==
    /\ pc = "mapped"
    /\ \E i, j \in Survivors :
          /\ rows[i].chapter = rows[j].chapter
          /\ rows[i].order < rows[j].order
          /\ rows[j].start_page < rows[i].start_page
    /\ \E g \in 1..Len(grouped) :
          \E k \in 1..(Len(grouped[g].entries) - 1) :
              /\ grouped[g].entries[k].term = grouped[g].entries[k + 1].term
              /\ DisplayStart(grouped[g].entries[k].page)
                    = DisplayStart(grouped[g].entries[k + 1].page)

(***************************************************************************)
(* C3: a chapter name is a group of the GroupedIndex if and only if an     *)
(* entry that survives deduplication resolves to it; no group is empty.    *)
(***************************************************************************)
C3_GroupsAreSurvivorChapters ==
    pc = "mapped" =>
        /\ GroupNames = {rows[i].chapter : i \in Survivors}
        /\ \A g \in 1..Len(grouped) : grouped[g].entries # <<>>

\* A referenced chapter is absent: deduplication removed all of its rows.
C3_Witness ==
    /\ pc = "mapped"
    /\ \E i \in 1..Len(rows) : rows[i].chapter \notin GroupNames
    /\ Len(grouped) >= 1

(***************************************************************************)
(* C4: the groups are listed in the order in which each chapter name is    *)
(* first met in the deduplicated rows sorted by (chapterOrder, page, term, *)
(* subentry), and each chapter name forms one group only.                  *)
(***************************************************************************)
C4_GroupsInFirstEncounterOrder ==
    pc = "mapped" =>
        /\ \A g1, g2 \in 1..Len(grouped) :
              g1 # g2 => grouped[g1].chapter_name # grouped[g2].chapter_name
        /\ \A g1, g2 \in 1..Len(grouped) :
              g1 < g2 =>
                  \E i \in Survivors :
                      /\ rows[i].chapter = grouped[g1].chapter_name
                      /\ \A j \in Survivors :
                            rows[j].chapter = grouped[g2].chapter_name
                                => RowKeyLess(rows[i], rows[j])

\* Two groups, the first of which also holds a row whose chapterOrder is
\* above that of the second group's rows.
C4_Witness ==
    /\ pc = "mapped"
    /\ Len(grouped) = 2
    /\ \E i, j \in Survivors :
          /\ rows[i].chapter = grouped[1].chapter_name
          /\ rows[j].chapter = grouped[2].chapter_name
          /\ rows[j].order < rows[i].order

(***************************************************************************)
(* C6: in the PDF path every reference is resolved to the first TOC entry, *)
(* in list order, whose page range contains its page, with that entry's    *)
(* index as chapter order; a reference that no range contains is resolved  *)
(* to "Other" with the sentinel order and is kept; every entry has an      *)
(* empty subheading.  The group of an unmatched surviving reference is     *)
(* listed last (C6_Original: always; C6_PdfResolution: when no surviving   *)
(* reference lies in a TOC entry that is itself named "Other").            *)
(***************************************************************************)
\* The references of the index entries: (pair, page), the pair stripped.
PdfReferences ==
    UNION {{<< <<Strip(index_entries[n].term), Strip(index_entries[n].subentry)>>,
               RefStart(index_entries[n].refs[k]) >> :
                k \in 1..Len(index_entries[n].refs)} :
           n \in 1..Len(index_entries)}

RECURSIVE CountRefs(_)
CountRefs(entries) ==
    IF entries = <<>> THEN 0 ELSE Len(Head(entries).refs) + CountRefs(Tail(entries))

PageIn(e, p) == e.start_page <= p /\ p <= e.end_page

\* The TOC positions that contain page p and have no containing entry before.
FirstContaining(p) ==
    {i \in 1..Len(toc) : PageIn(toc[i], p) /\ \A j \in 1..(i - 1) : ~PageIn(toc[j], p)}

ExpectedOrder(p) ==
    IF FirstContaining(p) = {} THEN SentinelOrder
    ELSE (CHOOSE i \in FirstContaining(p) : TRUE) - 1

ExpectedChapter(p) ==
    IF FirstContaining(p) = {} THEN "Other"
    ELSE toc[CHOOSE i \in FirstContaining(p) : TRUE].name

\* The page of the pair's reference with the smallest (order, page).
BestPage(pair) ==
    LET ps == {ref[2] : ref \in {r \in PdfReferences : r[1] = pair}}
    IN  CHOOSE p \in ps : \A q \in ps :
            \/ ExpectedOrder(p) < ExpectedOrder(q)
            \/ ExpectedOrder(p) = ExpectedOrder(q) /\ p <= q

C6_Resolved ==
    /\ Len(rows) = CountRefs(index_entries)
    /\ \A ref \in PdfReferences :
          \E i \in 1..Len(rows) :
              /\ PairOfRow(rows[i]) = ref[1]
              /\ rows[i].start_page = ref[2]
              /\ rows[i].chapter = ExpectedChapter(ref[2])
              /\ rows[i].order = ExpectedOrder(ref[2])
    /\ \A pl \in Places : EntryAt(pl).subheading = ""

\* The pairs whose surviving reference no TOC range contains.
UnmatchedPairs ==
    {pair \in {r[1] : r \in PdfReferences} : FirstContaining(BestPage(pair)) = {}}

C6_UnmatchedListedLast ==
    \A pair \in UnmatchedPairs : \A pl \in PlacesOf(pair) : pl[1] = Len(grouped)

\* A surviving reference lies in a TOC entry that is itself named "Other".
SurvivorInEntryNamedOther ==
    \E pair \in {r[1] : r \in PdfReferences} :
        /\ FirstContaining(BestPage(pair)) # {}
        /\ ExpectedChapter(BestPage(pair)) = "Other"

C6_Original ==
    (path = "pdf" /\ pc = "mapped") => C6_Resolved /\ C6_UnmatchedListedLast

C6_PdfResolution ==
    (path = "pdf" /\ pc = "mapped") =>
        /\ C6_Resolved
        /\ ~SurvivorInEntryNamedOther => C6_UnmatchedListedLast

\* Two overlapping TOC entries of different names with a reference in the
\* overlap, listed under the earlier one, and an unmatched surviving
\* reference whose "Other" group is listed last, after another group.
C6_Witness ==
    /\ path = "pdf" /\ pc = "mapped"
    /\ Len(toc) = 2 /\ toc[1].name # toc[2].name
    /\ \E i \in 1..Len(rows) :
          /\ PageIn(toc[1], rows[i].start_page) /\ PageIn(toc[2], rows[i].start_page)
          /\ rows[i].chapter = toc[1].name
    /\ UnmatchedPairs # {}
    /\ ~SurvivorInEntryNamedOther
    /\ Len(grouped) = 2 /\ grouped[2].chapter_name = "Other"

(***************************************************************************)
(* What the EPUB properties read off the inputs.                           *)
(***************************************************************************)
\* The references of the index entries in the order the mapping step walks
\* them: rows[i] is the row of FlatRefs(index_entries)[i].
RECURSIVE FlatRefs(_)
FlatRefs(entries) ==
    IF entries = <<>> THEN <<>>
    ELSE LET item == Head(entries)
         IN  [k \in 1..Len(item.refs) |->
                [pair |-> <<Strip(item.term), Strip(item.subentry)>>,
                 file |-> item.refs[k][1],
                 page |-> item.refs[k][2]]]
             \o FlatRefs(Tail(entries))

TocFiles == {toc[k].file_basename : k \in 1..Len(toc)}

\* Position of the file's entry in the table of contents, from 0.
TocPosition(f) == (CHOOSE k \in 1..Len(toc) : toc[k].file_basename = f) - 1

TocTitle(f) == toc[CHOOSE k \in 1..Len(toc) : toc[k].file_basename = f].title

SpineFiles == {PathName(spine_hrefs[k]) : k \in 1..Len(spine_hrefs)}

\* Position in the spine of the first href of the file, from 0.
SpinePosition(f) ==
    (CHOOSE k \in 1..Len(spine_hrefs) :
        /\ PathName(spine_hrefs[k]) = f
        /\ \A m \in 1..(k - 1) : PathName(spine_hrefs[m]) # f) - 1

\* The group that lists the pair of row i.
GroupOf(i) == (CHOOSE pl \in PlacesOf(PairOfRow(rows[i])) : TRUE)[1]

(***************************************************************************)
(* C5: in the EPUB path a reference whose file matches no TOC entry is     *)
(* kept and resolved to the chapter "Other" with the sentinel order, so    *)
(* that its group is listed after every group of a matched chapter.        *)
(***************************************************************************)
C5_UnmatchedOtherLast ==
    (path = "epub" /\ pc = "mapped") =>
        LET refs == FlatRefs(index_entries)
        IN  /\ Len(rows) = Len(refs)
            /\ \A i \in 1..Len(rows) :
                  refs[i].file \notin TocFiles =>
                      /\ rows[i].chapter = "Other"
                      /\ rows[i].order = SentinelOrder
            /\ \A i, j \in Survivors :
                  (refs[i].file \notin TocFiles /\ refs[j].file \in TocFiles)
                      => GroupOf(j) < GroupOf(i)

(***************************************************************************)
(* C7: in the EPUB path the chapter order of a reference whose file        *)
(* matches a TOC entry is a position, and the groups of two matched        *)
(* chapters that both have surviving entries appear in the order of those  *)
(* positions.  C7_Original: the position of the TOC entry in the table of  *)
(* contents.  C7_SpineOrder: the position in the spine of the first href   *)
(* of the file, the sentinel for a file that is not in the spine; the      *)
(* group order follows for files in the spine whose titles are not "Other" *)
(* and are borne by one TOC entry each.                                    *)
(***************************************************************************)
C7_Original ==
    (path = "epub" /\ pc = "mapped") =>
        LET refs == FlatRefs(index_entries)
        IN  /\ \A i \in 1..Len(rows) :
                  refs[i].file \in TocFiles =>
                      rows[i].order = TocPosition(refs[i].file)
            /\ \A i, j \in Survivors :
                  (/\ refs[i].file \in TocFiles /\ refs[j].file \in TocFiles
                   /\ TocTitle(refs[i].file) # TocTitle(refs[j].file)
                   /\ TocPosition(refs[i].file) < TocPosition(refs[j].file))
                      => GroupOf(i) < GroupOf(j)

\* The title of the file's TOC entry is not "Other" and no other TOC entry has it.
OwnTitle(f) ==
    /\ TocTitle(f) # "Other"
    /\ \A g \in TocFiles : g # f => TocTitle(g) # TocTitle(f)

C7_SpineOrder ==
    (path = "epub" /\ pc = "mapped") =>
        LET refs == FlatRefs(index_entries)
        IN  /\ \A i \in 1..Len(rows) :
                  refs[i].file \in TocFiles =>
                      rows[i].order = IF refs[i].file \in SpineFiles
                                      THEN SpinePosition(refs[i].file)
                                      ELSE SentinelOrder
            /\ \A i, j \in Survivors :
                  (/\ refs[i].file \in TocFiles /\ refs[j].file \in TocFiles
                   /\ refs[i].file \in SpineFiles /\ refs[j].file \in SpineFiles
                   /\ OwnTitle(refs[i].file) /\ OwnTitle(refs[j].file)
                   /\ SpinePosition(refs[i].file) < SpinePosition(refs[j].file))
                      => GroupOf(i) < GroupOf(j)

\* Two matched chapters with surviving entries whose spine order is the
\* reverse of their TOC order: the groups follow the spine.
C7_Witness ==
    /\ path = "epub" /\ pc = "mapped"
    /\ LET refs == FlatRefs(index_entries)
       IN  \E i, j \in Survivors :
              /\ refs[i].file \in TocFiles /\ refs[j].file \in TocFiles
              /\ refs[i].file \in SpineFiles /\ refs[j].file \in SpineFiles
              /\ OwnTitle(refs[i].file) /\ OwnTitle(refs[j].file)
              /\ SpinePosition(refs[i].file) < SpinePosition(refs[j].file)
              /\ TocPosition(refs[j].file) < TocPosition(refs[i].file)
              /\ GroupOf(i) < GroupOf(j)

(***************************************************************************)
(* C8: in the EPUB pipeline as run_epub runs it, every output entry's      *)
(* subheading is the lookup of the reference's page in the breakpoint list *)
(* extracted for the reference's file: the subheading of the latest        *)
(* breakpoint at or before the page, empty when there is none.             *)
(***************************************************************************)
\* The breakpoints of the file's extracted list at or before the page.
BreakpointsUpTo(f, p) ==
    IF f \in DOMAIN subheading_by_file_and_page
    THEN {k \in 1..Len(subheading_by_file_and_page[f]) :
             subheading_by_file_and_page[f][k][1] <= p}
    ELSE {}

ExpectedSubheading(f, p) ==
    IF BreakpointsUpTo(f, p) = {} THEN ""
    ELSE subheading_by_file_and_page[f]
            [CHOOSE k \in BreakpointsUpTo(f, p) :
                \A m \in BreakpointsUpTo(f, p) : m <= k][2]

C8_SubheadingLookedUp ==
    (path = "epub" /\ pc = "mapped") =>
        LET refs == FlatRefs(index_entries)
        IN  \A i \in Survivors :
                \A pl \in PlacesOf(refs[i].pair) :
                    EntryAt(pl).subheading = ExpectedSubheading(refs[i].file, refs[i].page)

(***************************************************************************)
(* extract_epub.py: _normalize_page.                                       *)
(***************************************************************************)

\* Length of the longest page token considered.
MaxTokenLen == 5

\* Characters a page token is made of: roman letters in both cases, two
\* digits, a space, and characters that are neither digits nor roman letters.
NormChars == {" ", "/", "0", "1", "A", "N", "X", "i", "v", "x"}

\* ROMAN_TO_INT, by position: ROMAN_TO_INT[RomanKeys[k]] = k.
RomanKeys ==
    << <<"i">>, <<"i", "i">>, <<"i", "i", "i">>, <<"i", "v">>, <<"v">>,
       <<"v", "i">>, <<"v", "i", "i">>, <<"v", "i", "i", "i">>, <<"i", "x">>,
       <<"x">>, <<"x", "i">>, <<"x", "i", "i">>, <<"x", "i", "i", "i">>,
       <<"x", "i", "v">>, <<"x", "v">>, <<"x", "v", "i">>,
       <<"x", "v", "i", "i">>, <<"x", "v", "i", "i", "i">>, <<"x", "i", "x">>,
       <<"x", "x">> >>

\* A table with the values of "ix" and "xi" exchanged.
RomanToIntSwapped ==
    [k \in 1..Len(RomanKeys) |->
        [key |-> RomanKeys[k],
         value |-> IF k = 9 THEN 11 ELSE IF k = 11 THEN 9 ELSE k]]

ROMAN_TO_INT ==
    [k \in 1..Len(RomanKeys) |-> [key |-> RomanKeys[k], value |-> k]]

\* str.lower() on one character
LowerChar(c) ==
    CASE c = "A" -> "a"
      [] c = "N" -> "n"
      [] c = "X" -> "x"
      [] c = "S" -> "s"
      [] OTHER -> c

\* str.lower()
Lower(s) == [i \in 1..Len(s) |-> LowerChar(s[i])]

IsDigit(c) == \E i \in 1..Len(Digits) : Digits[i] = c

\* re.sub(r"[^\d]", "", s)
StripNonDigits(s) == SelectSeq(s, IsDigit)

\* int(ds) for a non-empty string of digits
RECURSIVE IntOfDigits(_)
IntOfDigits(ds) ==
    IF ds = <<>> THEN 0
    ELSE 10 * IntOfDigits(SubSeq(ds, 1, Len(ds) - 1))
         + ((CHOOSE i \in 1..Len(Digits) : Digits[i] = ds[Len(ds)]) - 1)

NormalizePage(s) ==
    LET p == Lower(Strip(s))
        hits == {k \in 1..Len(ROMAN_TO_INT) : ROMAN_TO_INT[k].key = p}
        ds == StripNonDigits(p)
    IN  IF hits # {} THEN ROMAN_TO_INT[CHOOSE k \in hits : TRUE].value
        ELSE IF ds = <<>> THEN IntOfDigits(<<"0">>)
        ELSE IntOfDigits(ds)

PageTokens == SeqUpTo(NormChars, MaxTokenLen)

InitNorm ==
    /\ path = "normalize"
    /\ pc = "start"
    /\ MapIdle /\ JsonIdle /\ OtherIdle
    /\ page_str \in PageTokens
    /\ page_int = 0

NormalizePageCall ==
    /\ path = "normalize"
    /\ pc = "start"
    /\ page_int' = NormalizePage(page_str)
    /\ pc' = "normalized"
    /\ UNCHANGED <<path, toc, index_entries, spine_hrefs, file_to_chapter,
                   subheading_by_file_and_page, rows, grouped, page_str,
                   jsonVars, otherVars>>

NextNorm == NormalizePageCall

SpecNorm == InitNorm /\ [][NextNorm]_vars

(***************************************************************************)
(* structure_index.py: _extract_json_from_response and the loop of         *)
(* structure_index_with_llm over its result.                               *)
(*                                                                         *)
(* A response text is a sequence of symbols: the brackets and the comma,   *)
(* the digit "1", a letter "w" of prose, a space, "FENCE" for a run of     *)
(* three backquotes, and the word "json".  A parsed JSON value is kept as  *)
(* its symbols without whitespace: <<"[", "]">> is the empty list,         *)
(* <<"1", "1">> the integer 11.                                            *)
(***************************************************************************)

\* Length of the longest response text considered.
MaxTextLen == 5

JsonChars == {"[", "]", ",", "1", "w", " ", "FENCE", "json"}

\* The index of the first non-whitespace symbol of s at or after i.
RECURSIVE SkipWs(_, _)
SkipWs(s, i) ==
    IF i <= Len(s) /\ s[i] = " " THEN SkipWs(s, i + 1) ELSE i

\* The index after the run of digits of s starting at i.
RECURSIVE NumberEnd(_, _)
NumberEnd(s, i) ==
    IF i <= Len(s) /\ s[i] = "1" THEN NumberEnd(s, i + 1) ELSE i

\* The JSON decoder: the index after the value that starts at i, 0 when
\* there is no value there.
RECURSIVE ParseValue(_, _), ParseElems(_, _)
ParseValue(s, i) ==
    IF i > Len(s) THEN 0
    ELSE IF s[i] = "1" THEN NumberEnd(s, i)
    ELSE IF s[i] = "["
         THEN LET j == SkipWs(s, i + 1)
              IN  IF j <= Len(s) /\ s[j] = "]" THEN j + 1
                  ELSE ParseElems(s, j)
    ELSE 0

\* The elements of an array from i on, up to and including its "]".
ParseElems(s, i) ==
    LET e == ParseValue(s, i)
        j == SkipWs(s, e)
    IN  IF e = 0 \/ j > Len(s) THEN 0
        ELSE IF s[j] = "," THEN ParseElems(s, SkipWs(s, j + 1))
        ELSE IF s[j] = "]" THEN j + 1
        ELSE 0

NotSpace(c) == c # " "

\* json.loads(s): ok is FALSE for a JSONDecodeError.
JsonLoads(s) ==
    LET e == ParseValue(s, SkipWs(s, 1))
    IN  IF e # 0 /\ SkipWs(s, e) = Len(s) + 1
        THEN [ok |-> TRUE, value |-> SelectSeq(s, NotSpace)]
        ELSE [ok |-> FALSE, value |-> <<>>]

EmptyList == <<"[", "]">>

\* isinstance(v, list)
IsList(v) == v # <<>> /\ Head(v) = "["

\* text.split of the text at its fences
RECURSIVE SplitFence(_, _)
SplitFence(s, cur) ==
    IF s = <<>> THEN <<cur>>
    ELSE IF Head(s) = "FENCE" THEN <<cur>> \o SplitFence(Tail(s), <<>>)
    ELSE SplitFence(Tail(s), Append(cur, Head(s)))

\* One part of the split, stripped and without a leading "json".
FencePart(part) ==
    LET p == Strip(part)
    IN  IF p # <<>> /\ Head(p) = "json" THEN Strip(Tail(p)) ELSE p

\* The loop over the parts from the k-th on: the first part that starts
\* with "[" and parses is returned.
RECURSIVE FencedArrayFrom(_, _)
FencedArrayFrom(parts, k) ==
    IF k > Len(parts) THEN [ok |-> FALSE, value |-> <<>>]
    ELSE LET p == FencePart(parts[k])
         IN  IF p # <<>> /\ Head(p) = "[" /\ JsonLoads(p).ok
             THEN JsonLoads(p)
             ELSE FencedArrayFrom(parts, k + 1)

\* text.find("["), 0 when absent
FindBracket(t) ==
    IF \E i \in 1..Len(t) : t[i] = "["
    THEN CHOOSE i \in 1..Len(t) : t[i] = "[" /\ \A j \in 1..(i - 1) : t[j] # "["
    ELSE 0

\* The depth-tracking loop from index i on: the span from start to the "]"
\* that brings the depth back to 0 is parsed; the loop ends there.
RECURSIVE ScanBrackets(_, _, _, _)
ScanBrackets(t, start, i, depth) ==
    IF i > Len(t) THEN EmptyList
    ELSE IF t[i] = "[" THEN ScanBrackets(t, start, i + 1, depth + 1)
    ELSE IF t[i] = "]"
         THEN IF depth - 1 = 0
              THEN LET r == JsonLoads(SubSeq(t, start, i))
                   IN  IF r.ok THEN r.value ELSE EmptyList
              ELSE ScanBrackets(t, start, i + 1, depth - 1)
    ELSE ScanBrackets(t, start, i + 1, depth)

ExtractJsonFromResponse(response) ==
    LET t == Strip(response)
        fenced == IF \E i \in 1..Len(t) : t[i] = "FENCE"
                  THEN FencedArrayFrom(SplitFence(t, <<>>), 1)
                  ELSE [ok |-> FALSE, value |-> <<>>]
        direct == JsonLoads(t)
        start == FindBracket(t)
    IN  IF fenced.ok THEN fenced.value
        ELSE IF direct.ok THEN direct.value
        ELSE IF start # 0 THEN ScanBrackets(t, start, start, 0)
        ELSE EmptyList

Responses == SeqUpTo(JsonChars, MaxTextLen)

InitJson ==
    /\ path = "structure"
    /\ pc = "responded"
    /\ MapIdle /\ NormIdle /\ OtherIdle
    /\ text \in Responses
    /\ data = <<>>
    /\ raised = "none"

\* data = _extract_json_from_response(response)
ExtractJson ==
    /\ path = "structure"
    /\ pc = "responded"
    /\ data' = ExtractJsonFromResponse(text)
    /\ pc' = "extracted"
    /\ UNCHANGED <<path, toc, index_entries, spine_hrefs, file_to_chapter,
                   subheading_by_file_and_page, rows, grouped, normVars,
                   text, raised, otherVars>>

\* for item in data: a list is iterated (its numbers and lists are not
\* records and are skipped), an integer is not iterable.
IterateItems ==
    /\ path = "structure"
    /\ pc = "extracted"
    /\ raised' = IF IsList(data) THEN "none" ELSE "TypeError"
    /\ pc' = "structured"
    /\ UNCHANGED <<path, toc, index_entries, spine_hrefs, file_to_chapter,
                   subheading_by_file_and_page, rows, grouped, normVars,
                   text, data, otherVars>>

NextJson == ExtractJson \/ IterateItems

SpecJson == InitJson /\ [][NextJson]_vars

(***************************************************************************)
(* C9: _normalize_page gives the integer 1..20 for a roman numeral token   *)
(* i..xx (so "ix" is 9, "xi" is 11, "xii" is 12); any other token is       *)
(* stripped of its non-digit characters and read as a decimal integer,     *)
(* 0 when no digit remains ("N/A" is 0); the result is never negative and  *)
(* every token has a result.                                               *)
(***************************************************************************)

\* The roman numeral of n in 1..20, built from tens and units.
RomanUnits ==
    << <<>>, <<"i">>, <<"i", "i">>, <<"i", "i", "i">>, <<"i", "v">>, <<"v">>,
       <<"v", "i">>, <<"v", "i", "i">>, <<"v", "i", "i", "i">>, <<"i", "x">> >>

RomanOf(n) ==
    [i \in 1..(n \div 10) |-> "x"] \o RomanUnits[(n % 10) + 1]

\* The decimal value of the digits of s, read left to right.
RECURSIVE DigitsValueFrom(_, _)
DigitsValueFrom(s, acc) ==
    IF s = <<>> THEN acc
    ELSE IF IsDigit(Head(s))
         THEN DigitsValueFrom(Tail(s), 10 * acc + DigitValue(Head(s)))
         ELSE DigitsValueFrom(Tail(s), acc)

ExpectedPage(s) ==
    LET p == Lower(Strip(s))
    IN  IF \E n \in 1..20 : RomanOf(n) = p
        THEN CHOOSE n \in 1..20 : RomanOf(n) = p
        ELSE DigitsValueFrom(p, 0)

C9_NormalizePage ==
    pc = "normalized" =>
        /\ page_int \in Nat
        /\ page_int = ExpectedPage(page_str)
        /\ page_str = <<"i", "x">> => page_int = 9
        /\ page_str = <<"x", "i">> => page_int = 11
        /\ page_str = <<"x", "i", "i">> => page_int = 12
        /\ page_str = <<"N", "/", "A">> => page_int = 0

C9_Witness ==
    /\ pc = "normalized"
    /\ page_str = <<"x", "v", "i", "i", "i">>
    /\ page_int = 18

(***************************************************************************)
(* C10: for every response text, _extract_json_from_response returns the   *)
(* first well-formed bracketed JSON array found in the text (wrapped in    *)
(* prose or in a fence, and also after an earlier bracketed span that is   *)
(* not valid JSON); when the text holds no well-formed bracketed array the *)
(* result is the empty list; the loop over the result raises nothing.      *)
(***************************************************************************)

\* The spans of t that start with "[" and are well-formed JSON.
ArraySpans(t) ==
    {sp \in (1..Len(t)) \X (1..Len(t)) :
        /\ sp[1] <= sp[2]
        /\ t[sp[1]] = "["
        /\ JsonLoads(SubSeq(t, sp[1], sp[2])).ok}

\* The first of them: the one that starts earliest.
FirstArray(t) ==
    IF ArraySpans(t) = {} THEN EmptyList
    ELSE LET sp == CHOOSE a \in ArraySpans(t) :
                       \A b \in ArraySpans(t) : a[1] <= b[1]
         IN  JsonLoads(SubSeq(t, sp[1], sp[2])).value

C10_FirstArrayOrEmpty ==
    /\ pc \in {"extracted", "structured"} => data = FirstArray(text)
    /\ pc = "structured" => raised = "none"

(***************************************************************************)
(* structure_index.py: the loops of structure_toc_with_llm and             *)
(* structure_index_with_llm over the parsed JSON list.                     *)
(*                                                                         *)
(* A JSON object is a record whose fields are optional values: <<>> when   *)
(* the key is absent (item.get gives None), <<v>> when it is present.  An  *)
(* item that is not an object has dict = FALSE.                            *)
(***************************************************************************)

\* Length of the longest parsed list considered.
MaxItems == 2

Absent == <<>>

Some(v) == <<v>>

\* Python truth of an optional value whose falsy present value is `zero`.
Truthy(o, zero) == o # Absent /\ o[1] # zero

\* a or b
OrElse(a, b, zero) == IF Truthy(a, zero) THEN a ELSE b

NotDictToc ==
    [dict |-> FALSE, name |-> Absent, title |-> Absent, start_page |-> Absent,
     start |-> Absent, end_page |-> Absent, end |-> Absent]

\* The TOC items the collaborator may return.
TocItems ==
    {NotDictToc} \cup
    [dict : {TRUE},
     name : {Absent, Some(<<" ">>), Some(<<"a">>)},
     title : {Absent, Some(<<"b">>)},
     start_page : {Absent, Some(1), Some(2)},
     start : {Absent, Some(1)},
     end_page : {Absent, Some(0), Some(2)},
     end : {Absent, Some(3)}]

\* item.get("start_page") or item.get("start") or 0
ItemStart(item) == OrElse(OrElse(item.start_page, item.start, 0), Some(0), 0)[1]

\* A faulty variant of ItemEnd: a missing end page is always last_page.
ItemEndLastPage(d, i, lp) ==
    LET own == OrElse(d[i].end_page, d[i].end, 0)
    IN  IF own = Absent THEN lp ELSE own[1]

\* The end page of data[i]: its own, else one less than the start of
\* data[i + 1] when that is an object, else last_page.
ItemEnd(d, i, lp) ==
    LET item == d[i]
        own == OrElse(item.end_page, item.end, 0)
        inferred ==
            IF own = Absent /\ i + 1 <= Len(d) /\ d[i + 1].dict
            THEN LET next_item == d[i + 1]
                     next_start ==
                         OrElse(OrElse(next_item.start_page, next_item.start, 0),
                                Some(ItemStart(item) + 1), 0)
                 IN  Some(next_start[1] - 1)
            ELSE own
    IN  IF inferred = Absent THEN lp ELSE inferred[1]

\* One record of structure_toc_with_llm's result.
TocRecord(d, i, lp) ==
    [name |-> Strip(OrElse(OrElse(d[i].name, d[i].title, <<>>), Some(<<>>), <<>>)[1]),
     start_page |-> ItemStart(d[i]),
     end_page |-> ItemEnd(d, i, lp)]

\* The loop of structure_toc_with_llm from data[i] on.
RECURSIVE StructureTocFrom(_, _, _)
StructureTocFrom(d, i, lp) ==
    IF i > Len(d) THEN <<>>
    ELSE IF ~d[i].dict THEN StructureTocFrom(d, i + 1, lp)
    ELSE <<TocRecord(d, i, lp)>> \o StructureTocFrom(d, i + 1, lp)

StructureTocWithLlm(d, lp) == StructureTocFrom(d, 1, lp)

\* A JSON page list is [isint |-> FALSE, elems |-> the list, null as Absent];
\* a JSON integer n is [isint |-> TRUE, elems |-> <<Some(n)>>].
PagesList(elems) == [isint |-> FALSE, elems |-> elems]

PagesInt(n) == [isint |-> TRUE, elems |-> <<Some(n)>>]

PagesTruthy(o) ==
    /\ o # Absent
    /\ o[1] # PagesList(<<>>)
    /\ o[1] # PagesInt(0)

NotDictIndex ==
    [dict |-> FALSE, term |-> Absent, title |-> Absent, subentry |-> Absent,
     pages |-> Absent, page |-> Absent]

\* The index items the collaborator may return.
IndexItems ==
    {NotDictIndex} \cup
    [dict : {TRUE},
     term : {Absent, Some(<<" ">>), Some(<<"a">>)},
     title : {Absent, Some(<<"b">>)},
     subentry : {Absent, Some(<<"s">>)},
     pages : {Absent, Some(PagesList(<<>>)), Some(PagesList(<<Some(1), Absent>>)),
              Some(PagesInt(1))},
     page : {Absent, Some(PagesInt(2))}]

\* item.get("pages") or item.get("page") or [], an integer made a list,
\* None dropped.
ItemPages(item) ==
    LET chosen == IF PagesTruthy(item.pages) THEN item.pages[1]
                  ELSE IF PagesTruthy(item.page) THEN item.page[1]
                  ELSE PagesList(<<>>)
        present(o) == o # Absent
        kept == SelectSeq(chosen.elems, present)
    IN  [k \in 1..Len(kept) |-> kept[k][1]]

\* item.get("term") or item.get("title") or ""
ItemTerm(item) == OrElse(OrElse(item.term, item.title, <<>>), Some(<<>>), <<>>)[1]

IndexRecord(item) ==
    [term |-> Strip(ItemTerm(item)),
     subentry |-> Strip(OrElse(item.subentry, Some(<<>>), <<>>)[1]),
     refs |-> [k \in 1..Len(ItemPages(item)) |-> <<"None", ItemPages(item)[k]>>]]

\* The loop of structure_index_with_llm from data[i] on.
RECURSIVE StructureIndexFrom(_, _)
StructureIndexFrom(d, i) ==
    IF i > Len(d) THEN <<>>
    ELSE IF ~d[i].dict \/ ItemTerm(d[i]) = <<>> THEN StructureIndexFrom(d, i + 1)
    ELSE <<IndexRecord(d[i])>> \o StructureIndexFrom(d, i + 1)

StructureIndexWithLlm(d) == StructureIndexFrom(d, 1)

\* Page counts handed to structure_toc_with_llm.
LastPages == {3, 4}

InitStruct ==
    /\ pc = "parsed"
    /\ \/ /\ path = "structure_toc"
          /\ items \in SeqUpTo(TocItems, MaxItems)
          /\ last_page \in LastPages
       \/ /\ path = "structure_index"
          /\ items \in SeqUpTo(IndexItems, MaxItems)
          /\ last_page = 0
    /\ structured = <<>>
    /\ toc = <<>> /\ index_entries = <<>> /\ spine_hrefs = <<>>
    /\ file_to_chapter = <<>> /\ subheading_by_file_and_page = <<>>
    /\ rows = <<>> /\ grouped = <<>>
    /\ NormIdle /\ JsonIdle
    /\ HtmlIdle /\ SubIdle /\ RunIdle /\ CallIdle

StructureToc ==
    /\ path = "structure_toc"
    /\ pc = "parsed"
    /\ structured' = StructureTocWithLlm(items, last_page)
    /\ pc' = "structured"
    /\ UNCHANGED <<path, toc, index_entries, spine_hrefs, file_to_chapter,
                   subheading_by_file_and_page, rows, grouped, normVars,
                   jsonVars, items, last_page, htmlVars, subVars, runVars,
                   callVars>>

StructureIndex ==
    /\ path = "structure_index"
    /\ pc = "parsed"
    /\ structured' = StructureIndexWithLlm(items)
    /\ pc' = "structured"
    /\ UNCHANGED <<path, toc, index_entries, spine_hrefs, file_to_chapter,
                   subheading_by_file_and_page, rows, grouped, normVars,
                   jsonVars, items, last_page, htmlVars, subVars, runVars,
                   callVars>>

NextStruct == StructureToc \/ StructureIndex

SpecStruct == InitStruct /\ [][NextStruct]_vars

(***************************************************************************)
(* C11: for a TOC record without an end page, structure_toc_with_llm sets  *)
(* end_page to the next record's start page minus 1 when a next record     *)
(* exists and to last_page when it is the final one; a record that carries *)
(* an end page keeps it.                                                   *)
(***************************************************************************)

\* The positions in `items` of the objects, in order: structured[k] is built
\* from items[DictPositions[k]].
DictPositions ==
    LET isDict(i) == items[i].dict
    IN  SelectSeq([i \in 1..Len(items) |-> i], isDict)

\* The record carries no end page under either key.
NoEndPage(item) == item.end_page = Absent /\ item.end = Absent

\* The end page the record carries: "end_page", else "end".
CarriedEnd(item) ==
    IF item.end_page # Absent THEN item.end_page[1] ELSE item.end[1]

\* As stated: every record without an end page gets the start of the record
\* that follows it in the result, minus 1; the last record gets last_page;
\* every record with an end page keeps it.
C11_Original ==
    (path = "structure_toc" /\ pc = "structured") =>
        \A k \in 1..Len(structured) :
            LET item == items[DictPositions[k]]
            IN  /\ (NoEndPage(item) /\ k < Len(structured)) =>
                      structured[k].end_page = structured[k + 1].start_page - 1
                /\ (NoEndPage(item) /\ k = Len(structured)) =>
                      structured[k].end_page = last_page
                /\ ~NoEndPage(item) =>
                      structured[k].end_page = CarriedEnd(item)

\* The record has a start page that is not 0 under "start_page" or "start".
HasStart(item) == Truthy(item.start_page, 0) \/ Truthy(item.start, 0)

\* The record has an end page that is not 0 under "end_page", or has none
\* there and has one under "end".
HasEnd(item) ==
    \/ Truthy(item.end_page, 0)
    \/ (~Truthy(item.end_page, 0) /\ item.end # Absent)

\* Amended: the next item of the list counts only when it is an object; its
\* start page is used when it has one that is not 0, else the record's own
\* start page is its end page; an end page of 0 under "end_page" is read as
\* no end page.
C11_EndPageInferred ==
    (path = "structure_toc" /\ pc = "structured") =>
        \A k \in 1..Len(structured) :
            LET i == DictPositions[k]
                item == items[i]
                followed == i + 1 <= Len(items) /\ items[i + 1].dict
            IN  /\ (~HasEnd(item) /\ followed /\ HasStart(items[i + 1])) =>
                      structured[k].end_page = structured[k + 1].start_page - 1
                /\ (~HasEnd(item) /\ followed /\ ~HasStart(items[i + 1])) =>
                      structured[k].end_page = structured[k].start_page
                /\ (~HasEnd(item) /\ ~followed) =>
                      structured[k].end_page = last_page
                /\ HasEnd(item) =>
                      structured[k].end_page =
                          (IF Truthy(item.end_page, 0) THEN item.end_page[1]
                           ELSE item.end[1])

\* Two records without end pages: the first ends before the second starts,
\* the second ends at last_page.
C11_Witness ==
    /\ path = "structure_toc" /\ pc = "structured"
    /\ Len(structured) = 2
    /\ NoEndPage(items[1]) /\ NoEndPage(items[2])
    /\ structured[2].start_page = 2
    /\ structured[1].end_page = 1
    /\ structured[2].end_page = last_page

(***************************************************************************)
(* C12: the structuring step discards every record that lacks a term       *)
(* (index) or a name (TOC): no record of the returned index list has an    *)
(* empty term and no record of the returned TOC list has an empty name.    *)
(***************************************************************************)
C12_NoEmptyTermOrName ==
    pc = "structured" =>
        \A k \in 1..Len(structured) :
            /\ path = "structure_toc" => structured[k].name # <<>>
            /\ path = "structure_index" => structured[k].term # <<>>

(***************************************************************************)
(* export_md.py: export_markdown.  The document is the sequence of its     *)
(* lines; a line is the tuple of the pieces its f-string joins, the empty  *)
(* tuple for an empty line.                                                *)
(***************************************************************************)

\* str.upper() on one character
UpperChar(c) ==
    CASE c = "a" -> "A"
      [] c = "b" -> "B"
      [] c = "s" -> "S"
      [] OTHER -> c

\* _display_label
DisplayLabel(term, subentry) ==
    IF subentry = <<>> THEN term
    ELSE LET sub0 == Strip(subentry)
             sub == IF sub0 # <<>> THEN <<UpperChar(Head(sub0))>> \o Tail(sub0)
                    ELSE sub0
         IN  Strip(sub \o <<" ">> \o term)

\* subheading_order: each subheading once, in order of first occurrence.
RECURSIVE SubheadingOrder(_, _)
SubheadingOrder(entries, acc) ==
    IF entries = <<>> THEN acc
    ELSE LET sh == Head(entries).subheading
         IN  IF \E i \in 1..Len(acc) : acc[i] = sh
             THEN SubheadingOrder(Tail(entries), acc)
             ELSE SubheadingOrder(Tail(entries), Append(acc, sh))

\* The line of one entry: "- **label** - p. page"
EntryLine(e) == <<"- **", DisplayLabel(e.term, e.subentry), "** - p. ", e.page>>

\* The lines of the entries of one subheading, with its heading when it has
\* one, closed by an empty line.
SubheadingLines(entries, sh) ==
    LET mine == SelectSeq(entries, LAMBDA e : e.subheading = sh)
    IN  (IF sh # "" THEN << <<"#### ", sh>>, <<>> >> ELSE <<>>)
        \o [k \in 1..Len(mine) |-> EntryLine(mine[k])]
        \o << <<>> >>

RECURSIVE SubheadingsLines(_, _)
SubheadingsLines(entries, order) ==
    IF order = <<>> THEN <<>>
    ELSE SubheadingLines(entries, Head(order))
         \o SubheadingsLines(entries, Tail(order))

\* The lines of one chapter section.
SectionLines(section) ==
    << <<"### ", section.chapter_name>>, <<>> >>
    \o SubheadingsLines(section.entries, SubheadingOrder(section.entries, <<>>))

RECURSIVE SectionsLines(_)
SectionsLines(g) ==
    IF g = <<>> THEN <<>>
    ELSE SectionLines(Head(g)) \o SectionsLines(Tail(g))

\* The lines export_markdown writes.
ExportMarkdown(book_title, g) ==
    << <<"# ", book_title>>, <<>>, <<"## Index (by order of appearance)">>, <<>> >>
    \o SectionsLines(g)

BookTitle == "Book"

(***************************************************************************)
(* main.py: run_pdf from the index structuring call to the written         *)
(* document.  A structuring call either raises in _call_llm (no key, a     *)
(* network or authentication error) or gets a response text; the TOC call  *)
(* is not made at all when the raw TOC text is blank.                      *)
(***************************************************************************)

\* Length of the longest response text of a run.
MaxCallTextLen == 2

CallTexts == SeqUpTo(JsonChars, MaxCallTextLen)

IndexOutcomes ==
    {[kind |-> "error", text |-> <<>>]} \cup [kind : {"text"}, text : CallTexts]

TocOutcomes == IndexOutcomes \cup {[kind |-> "no_call", text |-> <<>>]}

InitRunPdf ==
    /\ path = "run_pdf"
    /\ pc = "start"
    /\ index_response \in IndexOutcomes
    /\ toc_response \in TocOutcomes
    /\ written = FALSE
    /\ MapIdle /\ NormIdle /\ JsonIdle
    /\ StructIdle /\ HtmlIdle /\ SubIdle /\ RunIdle

\* index_entries = structure_index_with_llm(raw["index_raw"]): an exception
\* of the call or of the loop over a result that is no list ends the run.
\* No item of a list written with JsonChars is an object, so the list the
\* loop returns is empty and index_entries stays <<>>; the same holds for
\* toc below.
RunStructureIndex ==
    /\ path = "run_pdf"
    /\ pc = "start"
    /\ LET d == ExtractJsonFromResponse(index_response.text)
       IN  IF index_response.kind = "error"
           THEN /\ raised' = "CallError" /\ pc' = "aborted"
                /\ UNCHANGED <<text, data>>
           ELSE /\ text' = index_response.text
                /\ data' = d
                /\ IF IsList(d)
                   THEN raised' = "none" /\ pc' = "index_structured"
                   ELSE raised' = "TypeError" /\ pc' = "aborted"
    /\ UNCHANGED <<path, toc, index_entries, spine_hrefs, file_to_chapter,
                   subheading_by_file_and_page, rows, grouped, normVars,
                   otherVars>>

\* toc = structure_toc_with_llm(raw["toc_raw"], last_page=raw["page_count"])
RunStructureToc ==
    /\ path = "run_pdf"
    /\ pc = "index_structured"
    /\ LET d == ExtractJsonFromResponse(toc_response.text)
       IN  CASE toc_response.kind = "error" ->
                   /\ raised' = "CallError" /\ pc' = "aborted"
                   /\ UNCHANGED <<text, data>>
             [] toc_response.kind = "no_call" ->
                   /\ pc' = "toc_structured"
                   /\ UNCHANGED <<text, data, raised>>
             [] OTHER ->
                   /\ text' = toc_response.text
                   /\ data' = d
                   /\ IF IsList(d)
                      THEN raised' = "none" /\ pc' = "toc_structured"
                      ELSE raised' = "TypeError" /\ pc' = "aborted"
    /\ UNCHANGED <<path, toc, index_entries, spine_hrefs, file_to_chapter,
                   subheading_by_file_and_page, rows, grouped, normVars,
                   otherVars>>

\* grouped = map_and_sort_pdf(toc, index_entries)
RunMapAndSort ==
    /\ path = "run_pdf"
    /\ pc = "toc_structured"
    /\ rows' = PdfRows(toc, index_entries)
    /\ grouped' = FirstAppearanceByChapter(rows')
    /\ pc' = "mapped"
    /\ UNCHANGED <<path, toc, index_entries, spine_hrefs, file_to_chapter,
                   subheading_by_file_and_page, normVars, jsonVars, otherVars>>

\* out_path = export_markdown(book_title, grouped, output_dir)
RunExport ==
    /\ path = "run_pdf"
    /\ pc = "mapped"
    /\ rendered' = ExportMarkdown(BookTitle, grouped)
    /\ written' = TRUE
    /\ pc' = "exported"
    /\ UNCHANGED <<path, toc, index_entries, spine_hrefs, file_to_chapter,
                   subheading_by_file_and_page, rows, grouped, normVars,
                   jsonVars, structVars, htmlVars, subVars, runs,
                   index_response, toc_response>>

NextRunPdf == RunStructureIndex \/ RunStructureToc \/ RunMapAndSort \/ RunExport

SpecRunPdf == InitRunPdf /\ [][NextRunPdf]_vars

(***************************************************************************)
(* C13: in a PDF run the index structuring call and the TOC structuring    *)
(* call are independent failure points: when either fails (an error of the *)
(* call, or a response from which no structure can be parsed) the run      *)
(* aborts: the mapping step and export_markdown are never reached and no   *)
(* document is written.                                                    *)
(***************************************************************************)

\* The call failed: it raised, or its response holds no well-formed array.
CallFailed(outcome) ==
    \/ outcome.kind = "error"
    \/ outcome.kind = "text" /\ ArraySpans(outcome.text) = {}

C13_FailureAborts ==
    (path = "run_pdf" /\ (CallFailed(index_response) \/ CallFailed(toc_response))) =>
        /\ pc \notin {"mapped", "exported"}
        /\ ~written

(***************************************************************************)
(* The resolver, reducer and renderer run twice on the same parsed input   *)
(* (map_and_sort_epub or map_and_sort_pdf, then export_markdown).          *)
(***************************************************************************)

\* Sizes of the PDF inputs of a repeated run.
MaxTwiceEntries == 2
MaxTwiceRows == 2

\* A faulty variant of EntriesAfterRun: the run empties each item's refs.
EntriesRefsConsumed(entries) ==
    [k \in 1..Len(entries) |->
        [term |-> entries[k].term, subentry |-> entries[k].subentry,
         refs |-> <<>>]]

\* index_entries after a run: the mapping step reads each item with
\* item.get and builds new tuples; it assigns to no item and to no list of
\* the input.
EntriesAfterRun(entries) == entries

\* toc after a run: only read (ch.get).
TocAfterRun(t) == t

InitTwice ==
    \/ InitEpub
    \/ /\ path = "pdf"
       /\ pc = "start"
       /\ toc \in SeqUpTo(PdfTocEntries, MaxToc)
       /\ index_entries \in IndexLists(Headings, PdfRefs, MaxTwiceEntries, MaxTwiceRows)
       /\ spine_hrefs = <<>>
       /\ file_to_chapter = <<>>
       /\ subheading_by_file_and_page = <<>>
       /\ rows = <<>>
       /\ grouped = <<>>
       /\ NormIdle /\ JsonIdle /\ OtherIdle

\* One run: the mapping step, then export_markdown.
RunPipeline ==
    /\ pc \in {"start", "ran_once"}
    /\ rows' = IF path = "pdf" THEN PdfRows(toc, index_entries)
               ELSE EpubRows(spine_hrefs, file_to_chapter,
                             subheading_by_file_and_page, index_entries)
    /\ grouped' = FirstAppearanceByChapter(rows')
    /\ rendered' = ExportMarkdown(BookTitle, grouped')
    /\ runs' = Append(runs, [toc |-> toc, index_entries |-> index_entries,
                             grouped |-> grouped', rendered |-> rendered'])
    /\ index_entries' = EntriesAfterRun(index_entries)
    /\ toc' = TocAfterRun(toc)
    /\ pc' = IF pc = "start" THEN "ran_once" ELSE "ran_twice"
    /\ UNCHANGED <<path, spine_hrefs, file_to_chapter,
                   subheading_by_file_and_page, normVars, jsonVars,
                   structVars, htmlVars, subVars, callVars>>

NextTwice == RunPipeline

SpecTwice == InitTwice /\ [][NextTwice]_vars

MaxParagraphs == 3

\* str.strip(",")
RECURSIVE StripCommas(_)
StripCommas(s) ==
    IF s # <<>> /\ Head(s) = "," THEN StripCommas(Tail(s))
    ELSE IF s # <<>> /\ s[Len(s)] = "," THEN StripCommas(SubSeq(s, 1, Len(s) - 1))
    ELSE s

\* text_before_first_link: "".join(parts).strip().strip(",").strip()
TextBeforeFirstLink(before) == Strip(StripCommas(Strip(before)))

\* sub in s
Contains(s, sub) ==
    \E i \in 1..(Len(s) - Len(sub) + 1) : SubSeq(s, i, i + Len(sub) - 1) = sub

\* "see" in raw_text.lower() or "continued" in raw_text.lower()
IsCrossReference(raw_text) ==
    \/ Contains(Lower(raw_text), <<"s", "e", "e">>)
    \/ Contains(Lower(raw_text), <<"c", "o", "n", "t", "i", "n", "u", "e", "d">>)

\* "Index-2" in classes or "index-2" in classes
IsSubEntryClass(class) == class \in {"Index-2", "index-2"}

\* The refs of a paragraph: a link without a file is skipped, the page token
\* of the others is normalized.
RECURSIVE LinkRefs(_)
LinkRefs(links) ==
    IF links = <<>> THEN <<>>
    ELSE LET a == Head(links)
         IN  IF PathName(a.path) = "" THEN LinkRefs(Tail(links))
             ELSE << <<PathName(a.path), NormalizePage(a.token)>> >>
                  \o LinkRefs(Tail(links))

\* A faulty variant of ParseParagraphs: a sub-entry paragraph takes its own
\* text as term.
RECURSIVE ParseParagraphsOwnTerm(_, _)
ParseParagraphsOwnTerm(ps, current_main_term) ==
    IF ps = <<>> THEN <<>>
    ELSE LET p == Head(ps)
             refs == LinkRefs(p.links)
             raw_text == TextBeforeFirstLink(p.before)
             sub == IsSubEntryClass(p.class)
             entry == [term |-> raw_text,
                       subentry |-> IF sub THEN raw_text ELSE <<>>,
                       refs |-> refs]
             rest == ParseParagraphsOwnTerm(Tail(ps),
                         IF sub THEN current_main_term ELSE raw_text)
         IN  IF refs = <<>> /\ IsCrossReference(raw_text) THEN rest
             ELSE <<entry>> \o rest

\* The loop over the paragraphs with current_main_term.
RECURSIVE ParseParagraphs(_, _)
ParseParagraphs(ps, current_main_term) ==
    IF ps = <<>> THEN <<>>
    ELSE LET p == Head(ps)
             refs == LinkRefs(p.links)
             raw_text == TextBeforeFirstLink(p.before)
             sub == IsSubEntryClass(p.class)
             entry == [term |-> IF sub THEN current_main_term ELSE raw_text,
                       subentry |-> IF sub THEN raw_text ELSE <<>>,
                       refs |-> refs]
             rest == ParseParagraphs(Tail(ps),
                         IF sub THEN current_main_term ELSE raw_text)
         IN  IF refs = <<>> /\ IsCrossReference(raw_text) THEN rest
             ELSE <<entry>> \o rest

ParseIndexHtml(ps) == ParseParagraphs(ps, <<>>)

IndexClasses == {"Index-1", "Index-2", "Index-Alpha"}

\* Texts before the first link: none (the paragraph starts with its page
\* anchor), two terms (one followed by a comma), two cross-reference texts.
BeforeTexts ==
    {<<>>, <<"a">>, <<"b", ",", " ">>, <<"S", "e", "e", " ", "a">>,
     <<"c", "o", "n", "t", "i", "n", "u", "e", "d">>}

\* Links to a page anchor: in a chapter file, or in the index page itself.
PageLinks ==
    {[path |-> <<"Text", "c1.xhtml">>, token |-> <<"i", "x">>],
     [path |-> <<>>, token |-> <<"1">>]}

IndexParagraphs ==
    [class : IndexClasses, before : BeforeTexts, links : SeqUpTo(PageLinks, 1)]

InitHtml ==
    /\ path = "parse_index_html"
    /\ pc = "start"
    /\ paragraphs \in SeqUpTo(IndexParagraphs, MaxParagraphs)
    /\ parsed = <<>>
    /\ MapIdle /\ NormIdle /\ JsonIdle
    /\ StructIdle /\ SubIdle /\ RunIdle /\ CallIdle

ParseIndexHtmlCall ==
    /\ path = "parse_index_html"
    /\ pc = "start"
    /\ parsed' = ParseIndexHtml(paragraphs)
    /\ pc' = "parsed"
    /\ UNCHANGED <<path, toc, index_entries, spine_hrefs, file_to_chapter,
                   subheading_by_file_and_page, rows, grouped, normVars,
                   jsonVars, structVars, paragraphs, subVars, runVars,
                   callVars>>

NextHtml == ParseIndexHtmlCall

SpecHtml == InitHtml /\ [][NextHtml]_vars

(***************************************************************************)
(* C15: every IndexEntry a source parser produces has a non-empty term:    *)
(* every entry _parse_index_html returns, for any sequence of top-level    *)
(* and sub-entry paragraphs (a sub-entry before any top-level paragraph, a *)
(* paragraph that starts with its page anchor included).                   *)
(***************************************************************************)
C15_TermNonEmpty ==
    (path = "parse_index_html" /\ pc = "parsed") =>
        \A k \in 1..Len(parsed) : parsed[k].term # <<>>

(***************************************************************************)
(* C16: _parse_index_html folds over the paragraphs in document order: a   *)
(* top-level paragraph yields an entry with its own text as term and an    *)
(* empty subentry; a sub-entry paragraph yields an entry with the text of  *)
(* the most recent preceding top-level paragraph as term and its own text  *)
(* as subentry; a paragraph with no page reference whose text contains     *)
(* "see" or "continued" yields no entry; every other paragraph yields      *)
(* exactly one entry, in paragraph order.                                  *)
(***************************************************************************)

\* The paragraphs that yield an entry, in document order.
KeptParagraphs ==
    LET kept(i) == ~(LinkRefs(paragraphs[i].links) = <<>>
                     /\ IsCrossReference(TextBeforeFirstLink(paragraphs[i].before)))
    IN  SelectSeq([i \in 1..Len(paragraphs) |-> i], kept)

\* The top-level paragraphs before paragraph i.
TopLevelBefore(i) ==
    {j \in 1..(i - 1) : ~IsSubEntryClass(paragraphs[j].class)}

C16_FoldWithCurrentTerm ==
    (path = "parse_index_html" /\ pc = "parsed") =>
        /\ Len(parsed) = Len(KeptParagraphs)
        /\ \A k \in 1..Len(parsed) :
            LET i == KeptParagraphs[k]
                own == TextBeforeFirstLink(paragraphs[i].before)
            IN  IF IsSubEntryClass(paragraphs[i].class)
                THEN /\ parsed[k].subentry = own
                     /\ TopLevelBefore(i) # {} =>
                          LET j == CHOOSE t \in TopLevelBefore(i) :
                                       \A u \in TopLevelBefore(i) : u <= t
                          IN  parsed[k].term =
                                  TextBeforeFirstLink(paragraphs[j].before)
                ELSE /\ parsed[k].term = own
                     /\ parsed[k].subentry = <<>>

\* Two top-level paragraphs, the second a dropped cross-reference, then a
\* sub-entry: it takes the term of the second.
C16_Witness ==
    /\ path = "parse_index_html" /\ pc = "parsed"
    /\ Len(paragraphs) = 3
    /\ paragraphs[1].class = "Index-1" /\ paragraphs[1].before = <<"a">>
    /\ paragraphs[2].class = "Index-1"
    /\ paragraphs[2].before = <<"S", "e", "e", " ", "a">>
    /\ paragraphs[2].links = <<>>
    /\ paragraphs[3].class = "Index-2" /\ paragraphs[3].before = <<"b", ",", " ">>
    /\ Len(parsed) = 2
    /\ parsed[2].term = <<"S", "e", "e", " ", "a">>
    /\ parsed[2].subentry = <<"b">>

(***************************************************************************)
(* extract_epub.py: _parse_chapter_subheadings, from the tags of the       *)
(* chapter on, and the lookup of map_and_sort.py: _subheading_for_ref in   *)
(* the list it returns.  A tag is a heading (h2, h3) with its text or an   *)
(* element whose id is a page marker, with the page token of the id.       *)
(***************************************************************************)

\* Length of the longest chapter considered, in tags.
MaxTags == 6

\* The tags a chapter is made of: two headings and three page markers, one
\* of them with a roman page token.
ChapterTags == {[kind |-> "h", text |-> "H", token |-> <<>>],
                [kind |-> "h", text |-> "K", token |-> <<>>],
                [kind |-> "page", text |-> "", token |-> <<"1">>],
                [kind |-> "page", text |-> "", token |-> <<"2">>],
                [kind |-> "page", text |-> "", token |-> <<"i", "i", "i">>]}

\* A faulty variant of RecordBreakpoints: a subheading is recorded once only,
\* however often it comes back.
RECURSIVE RecordBreakpointsOnce(_, _, _)
RecordBreakpointsOnce(ts, current_subheading, last_recorded) ==
    IF ts = <<>> THEN <<>>
    ELSE LET tag == Head(ts)
         IN  IF tag.kind = "h"
             THEN RecordBreakpointsOnce(Tail(ts), tag.text, last_recorded)
             ELSE IF current_subheading \notin last_recorded
             THEN << <<NormalizePage(tag.token), current_subheading>> >>
                  \o RecordBreakpointsOnce(Tail(ts), current_subheading,
                                           last_recorded \cup {current_subheading})
             ELSE RecordBreakpointsOnce(Tail(ts), current_subheading, last_recorded)

\* The loop over the tags: a page marker is recorded with the current
\* subheading unless that is the subheading recorded last.  last_recorded
\* is {} for None, else the set of the one subheading recorded last.
RECURSIVE RecordBreakpoints(_, _, _)
RecordBreakpoints(ts, current_subheading, last_recorded) ==
    IF ts = <<>> THEN <<>>
    ELSE LET tag == Head(ts)
         IN  IF tag.kind = "h"
             THEN RecordBreakpoints(Tail(ts), tag.text, last_recorded)
             ELSE IF last_recorded # {current_subheading}
             THEN << <<NormalizePage(tag.token), current_subheading>> >>
                  \o RecordBreakpoints(Tail(ts), current_subheading,
                                       {current_subheading})
             ELSE RecordBreakpoints(Tail(ts), current_subheading, last_recorded)

\* sorted(result, key=lambda x: x[0]): stable.
SortBreakpoints(result) ==
    LET n == Len(result)
        rank(i) == Cardinality({j \in 1..n :
                        \/ result[j][1] < result[i][1]
                        \/ result[j][1] = result[i][1] /\ j < i}) + 1
    IN  [k \in 1..n |-> result[CHOOSE i \in 1..n : rank(i) = k]]

ParseChapterSubheadings(ts) == SortBreakpoints(RecordBreakpoints(ts, "", {}))

InitSub ==
    /\ path = "subheadings"
    /\ pc = "start"
    /\ tags \in SeqUpTo(ChapterTags, MaxTags)
    /\ breakpoints = <<>>
    /\ query = <<>>
    /\ answer = ""
    /\ MapIdle /\ NormIdle /\ JsonIdle
    /\ StructIdle /\ HtmlIdle /\ RunIdle /\ CallIdle

ParseChapterSubheadingsCall ==
    /\ path = "subheadings"
    /\ pc = "start"
    /\ breakpoints' = ParseChapterSubheadings(tags)
    /\ pc' = "parsed"
    /\ UNCHANGED <<path, toc, index_entries, spine_hrefs, file_to_chapter,
                   subheading_by_file_and_page, rows, grouped, normVars,
                   jsonVars, structVars, htmlVars, tags, query, answer,
                   runVars, callVars>>

\* _subheading_for_ref(file_basename, page, {"c1.xhtml": breakpoints}), for
\* a page from 0 on and a file with or without a breakpoint list.
SubheadingForRefCall ==
    /\ path = "subheadings"
    /\ pc = "parsed"
    /\ \E f \in {"c1.xhtml", "c2.xhtml"}, p \in 0..(MaxTags \div 2) :
        /\ query' = <<f, p>>
        /\ answer' = SubheadingForRef(f, p, [x \in {"c1.xhtml"} |-> breakpoints])
    /\ pc' = "looked_up"
    /\ UNCHANGED <<path, toc, index_entries, spine_hrefs, file_to_chapter,
                   subheading_by_file_and_page, rows, grouped, normVars,
                   jsonVars, structVars, htmlVars, tags, breakpoints,
                   runVars, callVars>>

NextSub == ParseChapterSubheadingsCall \/ SubheadingForRefCall

SpecSub == InitSub /\ [][NextSub]_vars

(***************************************************************************)
(* C17: for a chapter whose page markers increase in document order, the   *)
(* lookup of a page in the run-length compressed, sorted breakpoint list   *)
(* gives the subheading that was active at the latest page marker at or    *)
(* before that page, as a lookup in the uncompressed list would; it gives  *)
(* the empty string for a page before the first marker and for a file      *)
(* with no list.                                                           *)
(***************************************************************************)

\* The uncompressed list: every page marker, in document order, with the
\* heading text that precedes it most closely ("" when none does).
RECURSIVE MarkersWithSubheading(_, _)
MarkersWithSubheading(ts, active) ==
    IF ts = <<>> THEN <<>>
    ELSE IF Head(ts).kind = "h" THEN MarkersWithSubheading(Tail(ts), Head(ts).text)
    ELSE << <<ExpectedPage(Head(ts).token), active>> >>
         \o MarkersWithSubheading(Tail(ts), active)

Uncompressed == MarkersWithSubheading(tags, "")

\* The page markers do not decrease in document order.
MarkersIncrease ==
    \A i, j \in 1..Len(Uncompressed) :
        i < j => Uncompressed[i][1] <= Uncompressed[j][1]

\* The subheading active at the latest marker at or before page p.
ActiveAt(p) ==
    LET at == {i \in 1..Len(Uncompressed) : Uncompressed[i][1] <= p}
    IN  IF at = {} THEN ""
        ELSE Uncompressed[CHOOSE i \in at : \A k \in at : k <= i][2]

C17_LookupMatchesUncompressed ==
    (path = "subheadings" /\ pc = "looked_up" /\ MarkersIncrease) =>
        answer = IF query[1] = "c1.xhtml" THEN ActiveAt(query[2]) ELSE ""

\* A subheading that comes back after another one: H at page 1, K at page 2,
\* H again at page 3; the lookup of page 3 gives H.
C17_Witness ==
    /\ path = "subheadings" /\ pc = "looked_up"
    /\ MarkersIncrease
    /\ breakpoints = << <<1, "H">>, <<2, "K">>, <<3, "H">> >>
    /\ query = <<"c1.xhtml", 3>>
    /\ answer = "H"

(***************************************************************************)
(* map_and_sort_pdf called on the index entries, and called again on the   *)
(* same entries in another order, with the same TOC.                       *)
(***************************************************************************)

\* Number of index entries, and of references in all, that are reordered.
MaxPermEntries == 2

MaxPermRows == 3

\* The state of run_pdf after both structuring calls have returned.
InitPerm ==
    /\ path = "pdf"
    /\ pc = "start"
    /\ toc \in SeqUpTo(PdfTocEntries, MaxToc)
    /\ index_entries \in IndexLists(Headings, PdfRefs, MaxPermEntries, MaxPermRows)
    /\ spine_hrefs = <<>>
    /\ file_to_chapter = <<>>
    /\ subheading_by_file_and_page = <<>>
    /\ rows = <<>>
    /\ grouped = <<>>
    /\ NormIdle /\ JsonIdle /\ OtherIdle

\* The lists got from `entries` by reordering the references within each
\* entry and then the entries themselves.
Reorderings(entries) ==
    LET PermsOf(s) == {[i \in 1..Len(s) |-> s[p[i]]] : p \in Permutations(1..Len(s))}
        RECURSIVE RefsPermuted(_)
        RefsPermuted(es) ==
            IF es = <<>> THEN {<<>>}
            ELSE {<<[Head(es) EXCEPT !.refs = r]>> \o rest :
                     r \in PermsOf(Head(es).refs), rest \in RefsPermuted(Tail(es))}
    IN  UNION {PermsOf(es) : es \in RefsPermuted(entries)}

\* The caller keeps the first result and reorders the entries.
PermuteEntries ==
    /\ path = "pdf"
    /\ pc = "mapped"
    /\ runs' = <<[toc |-> toc, index_entries |-> index_entries,
                 grouped |-> grouped, rendered |-> <<>>]>>
    /\ index_entries' \in Reorderings(index_entries)
    /\ pc' = "permuted"
    /\ UNCHANGED <<path, toc, spine_hrefs, file_to_chapter,
                   subheading_by_file_and_page, rows, grouped, normVars,
                   jsonVars, structVars, htmlVars, subVars, rendered, callVars>>

\* grouped = map_and_sort_pdf(toc, index_entries), on the reordered entries
MapAndSortPdfAgain ==
    /\ path = "pdf"
    /\ pc = "permuted"
    /\ rows' = PdfRows(toc, index_entries)
    /\ grouped' = FirstAppearanceByChapter(rows')
    /\ pc' = "mapped_again"
    /\ UNCHANGED <<path, toc, index_entries, spine_hrefs, file_to_chapter,
                   subheading_by_file_and_page, normVars, jsonVars,
                   otherVars>>

NextPerm == MapAndSortPdf \/ PermuteEntries \/ MapAndSortPdfAgain

SpecPerm == InitPerm /\ [][NextPerm]_vars

(***************************************************************************)
(* C18: for a fixed TOC, map_and_sort_pdf on index entries whose           *)
(* references are single pages returns the same GroupedIndex for every     *)
(* reordering of the entries and of the references within each entry, also *)
(* when the same (term, subentry) heading recurs in several entries.       *)
(***************************************************************************)
C18_OrderIndependent ==
    (path = "pdf" /\ pc = "mapped_again") => grouped = runs[1].grouped

\* Two entries of the same heading, the one with the later page first, are
\* swapped.
C18_Witness ==
    /\ path = "pdf" /\ pc = "mapped_again"
    /\ Len(index_entries) >= 2
    /\ index_entries # runs[1].index_entries
    /\ \E i, j \in 1..Len(index_entries) :
        /\ i < j
        /\ Strip(index_entries[i].term) = Strip(index_entries[j].term)
        /\ Strip(index_entries[i].subentry) = Strip(index_entries[j].subentry)
        /\ index_entries[i].refs # <<>>
        /\ index_entries[j].refs # <<>>
        /\ index_entries[i].refs[1][2] < index_entries[j].refs[1][2]
        /\ runs[1].index_entries[1] = index_entries[j]
    /\ Len(grouped) >= 1
    /\ grouped = runs[1].grouped

=============================================================================
